---- MODULE Spec2Model ----
(***************************************************************************)
(* Docs-page section tracking of htmx-r-dist: HtmxRObserver                *)
(* (js/htmx-r-observer.js) and HtmxRScroll.initDocsNav (js/htmx-r-scroll.js)*)
(* running on one page with their default selectors.  The page holds       *)
(* `section[id]` elements, sidebar links `aside a[href^="#"]`, and one     *)
(* other element carrying an id.  The host delivers, one at a time, link   *)
(* clicks, IntersectionObserver batches and timer expiries; the page may   *)
(* call the returned setScrolling at any time.                             *)
(***************************************************************************)
EXTENDS Integers, Sequences, FiniteSets, TLC

\* ------------------------------------------------------------ bounds
MaxSections == 2
MaxBatch == 2
MaxTimers == 2
MaxRows == 4
MaxListeners == 2
MaxToasts == 2
MaxPending == 2

\* ------------------------------------------------------------ the page
NoId == "null"
NoLink == 0
NoTimer == 0

\* The ids of the elements of the page that are no section[id]
OtherIds == {"top"}

Repeat(id, n) == [i \in 1 .. n |-> id]

\* The pages: up to MaxSections sections with ids among "intro", "usage" and
\* "api", ids possibly shared, possibly no section at all.
\* Only the id of a section is ever read, so sections of one id are listed together.
Pages ==
  LET counts == {c \in (0 .. MaxSections) \X (0 .. MaxSections) \X (0 .. MaxSections) :
                   c[1] + c[2] + c[3] <= MaxSections}
  IN {Repeat("intro", c[1]) \o Repeat("usage", c[2]) \o Repeat("api", c[3]) : c \in counts}

\* The links the page's HTML marks active before any script ran: none, or two of them
InitialMarks == {{}, {1, 3}}

\* The sidebar links in document order, and the href (without '#') of each.
\* "usage" has two links, "api" has none, "top" is no section.
Links == 1 .. 4
Href(l) == CASE l = 1 -> "intro" [] l = 2 -> "usage" [] l = 3 -> "usage" [] OTHER -> "top"

RECURSIVE SeqsUpTo(_, _)
SeqsUpTo(S, n) ==
  IF n = 0 THEN {<<>>}
  ELSE LET shorter == SeqsUpTo(S, n - 1)
       IN shorter \cup {Append(s, x) : s \in shorter, x \in S}

Range(s) == {s[i] : i \in 1 .. Len(s)}

\* No two sections of the page share an id
UniqueIds(secs) == \A i \in 1 .. Len(secs), j \in 1 .. Len(secs) : secs[i] = secs[j] => i = j

\* ------------------------------------------------------------ options
disableDuringScroll == TRUE
DefaultDuration == 1000
Durations == {0, DefaultDuration}

VARIABLES
  sections,      \* the section[id] elements of the page: the id of each, in document order
  activeLinks,   \* the links whose classList holds activeClass
  intersecting,  \* host: the observed sections now inside the root-margin band
  isScrolling,   \* createSectionObserver: let isScrolling
  scrollTimeout, \* createSectionObserver: let scrollTimeout (a timer handle)
  timers,        \* host: the live timers, [id, duration]
  nextTimerId,   \* host: the handle the next setTimeout returns
  activeId,      \* history: the id of the last onSectionChange / setActiveLink call
  repeated,      \* history: the last handler run that notified gave some id twice in a row
  calls,         \* history: the ids notified by the last handler run, in order
  last,          \* history: the last handler run, [op, id, flag, error]: id is a click's
                 \* target; flag says that a click found its target, that a batch had an
                 \* intersecting entry, that setScrolling cancelled a pending timer, that
                 \* the expired timer was the one scrollTimeout names
  navPending,    \* history: clicks that navigated to a section since setScrolling or a timer last ran (at most 2)
  seen,          \* history: the entries of the last batch the observer callback received (recorded by ObserverSpec)
  isScrolling2,  \* a second createSectionObserver instance on the same sections: its `isScrolling`
  scrollTimeout2,\* the second instance's `scrollTimeout`
  timers2,       \* the host's live timers whose callback belongs to the second instance
  calls2,        \* history: the calls the second instance's listener received from the last handler run
  rows,          \* HtmxRChat: the rows of the chat container, oldest first
  chatLast,      \* history: the HtmxRChat call that ran last
  modal,         \* HtmxRModal and the DOM it drives: [display, overflow, openModals, eventListeners,
                 \*   escapeHandlers, backdropHandlers, closes]
  modalLast,     \* history: the HtmxRModal call or DOM event that ran last, and its modal id
  container,     \* HtmxRToast: the toasts in the container, oldest first (toasts are numbered as shown)
  maxVisible,    \* HtmxRToast._defaults.maxVisible
  nextToast,     \* the number of the next toast shown
  stickyToasts,  \* the toasts shown with duration 0
  autoTimers,    \* the toasts whose auto-dismiss timer is pending
  removals,      \* per toast, the pending 200 ms removal timers
  dismissed,     \* history: per toast, the onDismiss calls made
  clicked,       \* history: the toasts whose close button was clicked
  toastLast      \* history: the HtmxRToast call, click or timer that ran last, and its toast

obsVars == <<sections, activeLinks, intersecting, isScrolling, scrollTimeout, timers,
             nextTimerId, activeId, repeated, calls, last, navPending>>

twoVars == <<isScrolling2, scrollTimeout2, timers2, calls2>>

chatVars == <<rows, chatLast>>

modalVars == <<modal, modalLast>>

toastVars == <<container, maxVisible, nextToast, stickyToasts, autoTimers, removals,
               dismissed, clicked, toastLast>>

uiVars == <<chatVars, modalVars, toastVars>>

vars == <<obsVars, seen, twoVars, uiVars>>

\* ------------------------------------------------------------ DOM lookups
\* document.getElementById(id)
getElementById(secs, id) == id \in Range(secs) \cup OtherIds

\* document.querySelector(`${sidebarSelector}[href="#${sectionId}"]`): first match or null
querySelector(sectionId) ==
  LET hits == {l \in Links : Href(l) = sectionId}
  IN IF hits = {} THEN NoLink ELSE CHOOSE l \in hits : \A m \in hits : l <= m

\* removeActive with the forEach dropped: no link is unmarked
removeActiveNone(al) == al

\* navLinks.forEach(link => link.classList.remove(activeClass))
removeActive(al) == al \ Links

\* onSectionChange without the `if (activeLink)` check
onSectionChangeUnchecked(al, sectionId) ==
  LET cleared == removeActive(al)
      activeLink == querySelector(sectionId)
  IN cleared \cup {activeLink}

\* initDocsObserver: onSectionChange
onSectionChange(al, sectionId) ==
  LET cleared == removeActive(al)
      activeLink == querySelector(sectionId)
  IN IF activeLink # NoLink THEN cleared \cup {activeLink} ELSE cleared

\* initDocsNav: setActiveLink
setActiveLink(al, sectionId) ==
  LET cleared == removeActive(al)
      activeLink == querySelector(sectionId)
  IN IF activeLink # NoLink THEN cleared \cup {activeLink} ELSE cleared

\* clickHandler that scrolls to the target without calling setActiveLink
clickHandlerSilent(al, secs, l) ==
  LET targetId == Href(l)
      targetSection == getElementById(secs, targetId)
  IN [activeLinks |-> al, calls |-> <<>>, scrolled |-> targetSection, error |-> "none"]

\* clickHandler without the `if (targetSection)` test
clickHandlerUnchecked(al, secs, l) ==
  LET targetId == Href(l)
  IN [activeLinks |-> setActiveLink(al, targetId), calls |-> <<targetId>>,
      scrolled |-> TRUE, error |-> "none"]

\* initDocsNav: the click handler of link l, on the links marked al and the
\* sections secs: the links it leaves marked, the setActiveLink calls it made,
\* whether it issued window.scrollTo, and what it threw
clickHandler(al, secs, l) ==
  LET targetId == Href(l)
      targetSection == getElementById(secs, targetId)
  IN IF targetSection
     THEN [activeLinks |-> setActiveLink(al, targetId), calls |-> <<targetId>>,
           scrolled |-> TRUE, error |-> "none"]
     ELSE [activeLinks |-> al, calls |-> <<>>, scrolled |-> FALSE, error |-> "none"]

\* ------------------------------------------------------------ host timers
\* clearTimeout that cancels nothing
clearTimeoutNothing(ts, handle) == ts

clearTimeout(ts, handle) == {t \in ts : t.id # handle}

\* setTimeout whose timer is never scheduled
setTimeoutDropped(ts, id, duration) == ts

setTimeout(ts, id, duration) == ts \cup {[id |-> id, duration |-> duration]}

\* ------------------------------------------------------------ observer
\* The entries the host reports for a batch of band crossings: each crossing
\* flips its target's state, and the entry carries the new state.
RECURSIVE Entries(_, _)
Entries(batch, cur) ==
  IF batch = <<>> THEN <<>>
  ELSE LET t == Head(batch)
           entering == t \notin cur
       IN <<[target |-> t, isIntersecting |-> entering]>>
          \o Entries(Tail(batch), IF entering THEN cur \cup {t} ELSE cur \ {t})

RECURSIVE Crossed(_, _)
Crossed(batch, cur) ==
  IF batch = <<>> THEN cur
  ELSE LET t == Head(batch)
       IN Crossed(Tail(batch), IF t \in cur THEN cur \ {t} ELSE cur \cup {t})

\* entries.forEach that walks the batch from its last entry to its first
RECURSIVE forEachEntryReversed(_, _)
forEachEntryReversed(secs, entries) ==
  IF entries = <<>> THEN <<>>
  ELSE LET entry == Head(entries)
           rest == forEachEntryReversed(secs, Tail(entries))
       IN IF entry.isIntersecting THEN rest \o <<secs[entry.target]>> ELSE rest

\* entries.forEach: the ids handed to onSectionChange, in order
RECURSIVE forEachEntry(_, _)
forEachEntry(secs, entries) ==
  IF entries = <<>> THEN <<>>
  ELSE LET entry == Head(entries)
           rest == forEachEntry(secs, Tail(entries))
       IN IF entry.isIntersecting THEN <<secs[entry.target]>> \o rest ELSE rest

\* observerCallback without the `isScrolling` early return
observerCallbackUnguarded(secs, scrolling, entries) == forEachEntry(secs, entries)

\* The IntersectionObserver callback: the onSectionChange calls it makes
observerCallback(secs, scrolling, entries) ==
  IF disableDuringScroll /\ scrolling THEN <<>> ELSE forEachEntry(secs, entries)

RECURSIVE Deliver(_, _)
Deliver(al, ids) ==
  IF ids = <<>> THEN al ELSE Deliver(onSectionChange(al, Head(ids)), Tail(ids))

\* ------------------------------------------------------------ construction
\* createSectionObserver on the sections secs: the sections it observes
\* (sections.forEach(section => observer.observe(section))) and what it threw
createSectionObserver(secs) == [observed |-> 1 .. Len(secs), error |-> "none"]

\* ------------------------------------------------------------ setScrolling
\* setScrolling that arms a new timer without cancelling the pending one
setScrollingStacking(s, state, duration) ==
  IF state
  THEN [isScrolling |-> state,
        scrollTimeout |-> s.nextTimerId,
        timers |-> setTimeout(s.timers, s.nextTimerId, duration),
        nextTimerId |-> s.nextTimerId + 1]
  ELSE [isScrolling |-> state,
        scrollTimeout |-> s.scrollTimeout,
        timers |-> clearTimeout(s.timers, s.scrollTimeout),
        nextTimerId |-> s.nextTimerId]

\* The state setScrolling(state, duration) leaves: [isScrolling, scrollTimeout, timers, nextTimerId]
setScrolling(s, state, duration) ==
  LET cleared == clearTimeout(s.timers, s.scrollTimeout)
  IN IF state
     THEN [isScrolling |-> state,
           scrollTimeout |-> s.nextTimerId,
           timers |-> setTimeout(cleared, s.nextTimerId, duration),
           nextTimerId |-> s.nextTimerId + 1]
     ELSE [isScrolling |-> state,
           scrollTimeout |-> s.scrollTimeout,
           timers |-> cleared,
           nextTimerId |-> s.nextTimerId]

ScrollState ==
  [isScrolling |-> isScrolling, scrollTimeout |-> scrollTimeout,
   timers |-> timers, nextTimerId |-> nextTimerId]

\* The second instance's closure reading the first instance's variables
Scroll2StateShared ==
  [isScrolling |-> isScrolling, scrollTimeout |-> scrollTimeout,
   timers |-> timers, nextTimerId |-> nextTimerId]

\* The closure of the second instance; handles come from the one host counter
Scroll2State ==
  [isScrolling |-> isScrolling2, scrollTimeout |-> scrollTimeout2,
   timers |-> timers2, nextTimerId |-> nextTimerId]

\* ------------------------------------------------------------ history
NewActive(ids) == IF ids = <<>> THEN activeId ELSE ids[Len(ids)]

\* Some id of old-active followed by the ids just notified equals its predecessor
NewRepeated(ids) ==
  LET all == <<activeId>> \o ids
  IN IF ids = <<>> THEN repeated
     ELSE \E i \in 1 .. Len(all) - 1 : all[i] # NoId /\ all[i] = all[i + 1]

Ran(op, id, flag, error) == [op |-> op, id |-> id, flag |-> flag, error |-> error]

\* ------------------------------------------------------------ HtmxRModal
\* The modal elements of the page, and an id no element has
ModalIds == {"m1", "m2"}
MissingModal == "ghost"

\* document.getElementById(modalId) finds an element
getModal(modalId) == modalId \in ModalIds

NoCloses == [id \in ModalIds |-> 0]

\* HtmxRModal at page load: no modal shown, body overflow not set, no listener
ModalLoaded ==
  [display |-> [id \in ModalIds |-> "none"],
   overflow |-> "",
   openModals |-> {},
   eventListeners |-> {},
   escapeHandlers |-> [id \in ModalIds |-> 0],
   backdropHandlers |-> [id \in ModalIds |-> 0],
   closes |-> NoCloses]

\* close that restores body scroll without looking at openModals
closeUnlocking(m, modalId) ==
  IF ~getModal(modalId) THEN m
  ELSE [m EXCEPT !.display[modalId] = "none",
                 !.openModals = @ \ {modalId},
                 !.overflow = "auto",
                 !.closes[modalId] = @ + 1]

\* HtmxRModal.close; closes counts the calls that found their modal
close(m, modalId) ==
  IF ~getModal(modalId) THEN m
  ELSE [m EXCEPT !.display[modalId] = "none",
                 !.openModals = @ \ {modalId},
                 !.overflow = IF m.openModals \ {modalId} = {} THEN "auto" ELSE @,
                 !.closes[modalId] = @ + 1]

\* HtmxRModal.setupEventListeners; every modal has a .modal-content child
setupEventListeners(m, modalId, options) ==
  IF ~getModal(modalId) THEN m
  ELSE [m EXCEPT
          !.escapeHandlers[modalId] = IF options.closeOnEscape THEN @ + 1 ELSE @,
          !.eventListeners = IF options.closeOnEscape THEN @ \cup {modalId} ELSE @,
          !.backdropHandlers[modalId] = IF options.closeOnBackdrop THEN @ + 1 ELSE @]

\* HtmxRModal.open
open(m, modalId, options) ==
  IF ~getModal(modalId) THEN m
  ELSE LET shown == [m EXCEPT !.display[modalId] = "flex",
                              !.overflow = "hidden",
                              !.openModals = @ \cup {modalId}]
       IN IF modalId \notin shown.eventListeners
          THEN setupEventListeners(shown, modalId, options)
          ELSE shown

\* forEach(modalId => this.close(modalId)) over ids
RECURSIVE closeEach(_, _)
closeEach(m, ids) ==
  IF ids = {} THEN m
  ELSE LET modalId == CHOOSE id \in ids : TRUE
       IN closeEach(close(m, modalId), ids \ {modalId})

\* closeAll that closes one of the open modals only
closeAllOne(m) ==
  IF m.openModals = {} THEN m ELSE close(m, CHOOSE id \in m.openModals : TRUE)

\* HtmxRModal.closeAll
closeAll(m) == closeEach(m, m.openModals)

\* The keydown listener registered for modalId, on an Escape key press
escapeHandler(m, modalId) ==
  IF modalId \in m.openModals THEN close(m, modalId) ELSE m

\* An Escape key press: every keydown listener registered on document runs
RECURSIVE keydownEscape(_, _)
keydownEscape(m, ids) ==
  IF ids = {} THEN m
  ELSE LET modalId == CHOOSE id \in ids : TRUE
           once == IF m.escapeHandlers[modalId] > 0 THEN escapeHandler(m, modalId) ELSE m
           twice == IF m.escapeHandlers[modalId] > 1 THEN escapeHandler(once, modalId) ELSE once
       IN keydownEscape(twice, ids \ {modalId})

\* A click whose target is the modal element itself: the first n click
\* listeners registered on the modal run
RECURSIVE backdropClick(_, _, _)
backdropClick(m, modalId, n) ==
  IF n = 0 THEN m ELSE backdropClick(close(m, modalId), modalId, n - 1)

ModalRan(op, modalId) == [op |-> op, id |-> modalId]

\* ------------------------------------------------------------ HtmxRToast
DefaultToastDuration == 3500
DefaultMaxVisible == 5

Toasts == 1 .. MaxToasts
NoToast == 0

\* options.duration of show: sticky, or left to the default
ToastDurations == {0, DefaultToastDuration}

\* configure({ maxVisible }): the values pages set
MaxVisibleChoices == {1, DefaultMaxVisible}

\* toast.parentNode is set
InContainer(c, t) == \E i \in 1 .. Len(c) : c[i] = t

\* toast.remove()
removeToast(c, t) == SelectSeq(c, LAMBDA x : x # t)

\* show: the container after the max-visible rule and the append of toast t
showToast(c, mv, t) ==
  LET toasts == c
      kept == IF Len(toasts) >= mv THEN removeToast(c, toasts[1]) ELSE c
  IN Append(kept, t)

\* show that arms the auto-dismiss timer whatever the duration
autoDismissAlways(timed, t, duration) == timed \cup {t}

\* show: the auto-dismiss timers after `if (duration > 0) setTimeout(...)`
autoDismiss(timed, t, duration) == IF duration > 0 THEN timed \cup {t} ELSE timed

\* _dismiss(toast, onDismiss): the pending removal timers it leaves
dismissToast(c, rem, t) ==
  IF ~InContainer(c, t) THEN rem ELSE [rem EXCEPT ![t] = @ + 1]

ToastRan(op, t) == [op |-> op, toast |-> t]

\* ------------------------------------------------------------ Init
Init ==
  /\ sections \in Pages
  /\ activeLinks \in InitialMarks
  /\ intersecting = {}
  /\ isScrolling = FALSE
  /\ scrollTimeout = NoTimer
  /\ timers = {}
  /\ nextTimerId = 1
  /\ activeId = NoId
  /\ repeated = FALSE
  /\ calls = <<>>
  /\ last = Ran("init", NoId, FALSE, createSectionObserver(sections).error)
  /\ navPending = 0
  /\ seen = <<>>
  /\ isScrolling2 = FALSE
  /\ scrollTimeout2 = NoTimer
  /\ timers2 = {}
  /\ calls2 = <<>>
  /\ rows = <<>>
  /\ chatLast = "init"
  /\ modal = ModalLoaded
  /\ modalLast = ModalRan("init", MissingModal)
  /\ container = <<>>
  /\ maxVisible = DefaultMaxVisible
  /\ nextToast = 1
  /\ stickyToasts = {}
  /\ autoTimers = {}
  /\ removals = [t \in Toasts |-> 0]
  /\ dismissed = [t \in Toasts |-> 0]
  /\ clicked = {}
  /\ toastLast = ToastRan("init", NoToast)

\* ------------------------------------------------------------ actions
\* initDocsNav: the click handler of sidebar link l
Click(l) ==
  LET r == clickHandler(activeLinks, sections, l)
  IN /\ activeLinks' = r.activeLinks
     /\ calls' = r.calls
     /\ activeId' = NewActive(r.calls)
     /\ repeated' = NewRepeated(r.calls)
     /\ navPending' = IF r.scrolled /\ Href(l) \in Range(sections)
                      THEN (IF navPending = 0 THEN 1 ELSE 2)
                      ELSE navPending
     /\ last' = Ran("click", Href(l), r.scrolled, r.error)
     /\ UNCHANGED <<sections, intersecting, isScrolling, scrollTimeout, timers, nextTimerId>>

\* createSectionObserver: the IntersectionObserver callback on one batch
Intersect(batch) ==
  LET entries == Entries(batch, intersecting)
      ids == observerCallback(sections, isScrolling, entries)
  IN /\ intersecting' = Crossed(batch, intersecting)
     /\ activeLinks' = Deliver(activeLinks, ids)
     /\ calls' = ids
     /\ activeId' = NewActive(ids)
     /\ repeated' = NewRepeated(ids)
     /\ last' = Ran("intersect", NoId, \E i \in 1 .. Len(entries) : entries[i].isIntersecting, "none")
     /\ UNCHANGED <<sections, isScrolling, scrollTimeout, timers, nextTimerId, navPending>>

\* createSectionObserver: setScrolling(state, duration), called by the page
SetScrolling(state, duration) ==
  LET s == setScrolling(ScrollState, state, duration)
  IN /\ state => nextTimerId <= MaxTimers
     /\ isScrolling' = s.isScrolling
     /\ scrollTimeout' = s.scrollTimeout
     /\ timers' = s.timers
     /\ nextTimerId' = s.nextTimerId
     /\ calls' = <<>>
     /\ last' = Ran(IF state THEN "arm" ELSE "release", NoId, \E t \in timers : t.id = scrollTimeout, "none")
     /\ navPending' = 0
     /\ UNCHANGED <<sections, activeLinks, intersecting, activeId, repeated>>

\* createSectionObserver: the setTimeout callback of live timer t
TimerExpiry(t) ==
  /\ t \in timers
  /\ timers' = timers \ {t}
  /\ isScrolling' = FALSE
  /\ calls' = <<>>
  /\ last' = Ran("timer", NoId, t.id = scrollTimeout, "none")
  /\ navPending' = 0
  /\ UNCHANGED <<sections, activeLinks, intersecting, scrollTimeout, nextTimerId, activeId, repeated>>

Batches == SeqsUpTo(createSectionObserver(sections).observed, MaxBatch) \ {<<>>}

ClickStep == (\E l \in Links : Click(l)) /\ UNCHANGED <<seen, twoVars, uiVars>>
IntersectStep == (\E batch \in Batches : Intersect(batch)) /\ UNCHANGED <<seen, twoVars, uiVars>>
SetScrollingStep ==
  /\ \E state \in BOOLEAN, duration \in Durations : SetScrolling(state, duration)
  /\ UNCHANGED <<seen, twoVars, uiVars>>
TimerStep == (\E t \in timers : TimerExpiry(t)) /\ UNCHANGED <<seen, twoVars, uiVars>>

Next ==
  \/ ClickStep
  \/ IntersectStep
  \/ SetScrollingStep
  \/ TimerStep

Spec == Init /\ [][Next]_vars

\* The host runs every live timer's callback in the end
FairSpec == Spec /\ WF_vars(TimerStep)

\* createSectionObserver on its own (htmx-r-observer.js without the sidebar
\* click handlers), with the entries of each delivered batch recorded
ObserveStep ==
  /\ \E batch \in Batches : Intersect(batch) /\ seen' = Entries(batch, intersecting)
  /\ UNCHANGED <<twoVars, uiVars>>
ArmStep ==
  /\ \E state \in BOOLEAN, duration \in Durations : SetScrolling(state, duration)
  /\ seen' = <<>>
  /\ UNCHANGED <<twoVars, uiVars>>
ExpiryStep ==
  /\ \E t \in timers : TimerExpiry(t)
  /\ seen' = <<>>
  /\ UNCHANGED <<twoVars, uiVars>>

ObserverNext ==
  \/ ObserveStep
  \/ ArmStep
  \/ ExpiryStep

ObserverSpec == Init /\ [][ObserverNext]_vars

\* ------------------------------------------------------------ two instances
\* Two createSectionObserver instances on the same sections. Each has its own
\* closure (isScrolling, scrollTimeout); setTimeout and clearTimeout are the
\* host's, so a clearTimeout by one instance is applied to every live timer.

\* The host delivers one batch to the callbacks of both observers
IntersectBoth(batch) ==
  /\ Intersect(batch)
  /\ calls2' = observerCallback(sections, Scroll2State.isScrolling, Entries(batch, intersecting))
  /\ UNCHANGED <<isScrolling2, scrollTimeout2, timers2>>

\* setScrolling(state, duration) of the first instance
SetScrolling1(state, duration) ==
  /\ SetScrolling(state, duration)
  /\ timers2' = clearTimeout(timers2, scrollTimeout)
  /\ calls2' = <<>>
  /\ UNCHANGED <<isScrolling2, scrollTimeout2>>

\* setScrolling(state, duration) of the second instance
SetScrolling2(state, duration) ==
  LET s == setScrolling(Scroll2State, state, duration)
  IN /\ state => nextTimerId <= MaxTimers + 1
     /\ isScrolling2' = s.isScrolling
     /\ scrollTimeout2' = s.scrollTimeout
     /\ timers2' = s.timers
     /\ nextTimerId' = s.nextTimerId
     /\ timers' = clearTimeout(timers, Scroll2State.scrollTimeout)
     /\ calls' = <<>>
     /\ calls2' = <<>>
     /\ last' = Ran(IF state THEN "arm2" ELSE "release2", NoId,
                    \E t \in timers2 : t.id = scrollTimeout2, "none")
     /\ UNCHANGED <<sections, activeLinks, intersecting, isScrolling, scrollTimeout,
                    activeId, repeated, navPending>>

\* The setTimeout callback of the first instance's live timer t
TimerExpiry1(t) ==
  /\ TimerExpiry(t)
  /\ calls2' = <<>>
  /\ UNCHANGED <<isScrolling2, scrollTimeout2, timers2>>

\* The setTimeout callback of the second instance's live timer t
TimerExpiry2(t) ==
  /\ t \in timers2
  /\ timers2' = timers2 \ {t}
  /\ isScrolling2' = FALSE
  /\ calls' = <<>>
  /\ calls2' = <<>>
  /\ last' = Ran("timer2", NoId, t.id = scrollTimeout2, "none")
  /\ UNCHANGED <<sections, activeLinks, intersecting, isScrolling, scrollTimeout, timers,
                 nextTimerId, activeId, repeated, navPending, scrollTimeout2>>

IntersectBothStep == (\E batch \in Batches : IntersectBoth(batch)) /\ UNCHANGED <<seen, uiVars>>
SetScrolling1Step ==
  /\ \E state \in BOOLEAN : SetScrolling1(state, DefaultDuration)
  /\ UNCHANGED <<seen, uiVars>>
SetScrolling2Step ==
  /\ \E state \in BOOLEAN : SetScrolling2(state, DefaultDuration)
  /\ UNCHANGED <<seen, uiVars>>
Timer1Step == (\E t \in timers : TimerExpiry1(t)) /\ UNCHANGED <<seen, uiVars>>
Timer2Step == (\E t \in timers2 : TimerExpiry2(t)) /\ UNCHANGED <<seen, uiVars>>

TwoNext ==
  \/ IntersectBothStep
  \/ SetScrolling1Step
  \/ SetScrolling2Step
  \/ Timer1Step
  \/ Timer2Step

\* Both instances are created on a page of sections with unique ids whose
\* links carry no active class yet
TwoInit == Init /\ activeLinks = {} /\ UniqueIds(sections)

TwoSpec == TwoInit /\ [][TwoNext]_vars

\* ------------------------------------------------------------ HtmxRChat
Roles == {"user", "assistant"}

\* The CSS classes of a row: a message row of a role, or the typing indicator
RowClass(row) ==
  IF row = "typing"
  THEN {"htmx-r-chat-typing", "htmx-r-chat-row", "htmx-r-chat-row--assistant"}
  ELSE {"htmx-r-chat-row", "htmx-r-chat-row--" \o row}

\* el.querySelector('.' + class): the first row of the class, 0 for null
querySelectorRow(rs, class) ==
  IF \E i \in 1 .. Len(rs) : class \in RowClass(rs[i])
  THEN CHOOSE i \in 1 .. Len(rs) :
         /\ class \in RowClass(rs[i])
         /\ \A j \in 1 .. i - 1 : class \notin RowClass(rs[j])
  ELSE 0

\* row.remove() of the row at index i
removeRow(rs, i) == SubSeq(rs, 1, i - 1) \o SubSeq(rs, i + 1, Len(rs))

appendMessage(rs, role) == Append(rs, role)

\* setTyping without the `if (existingIndicator) return`
setTypingAgain(rs, visible) ==
  LET existingIndicator == querySelectorRow(rs, "htmx-r-chat-typing")
  IN IF ~visible
     THEN (IF existingIndicator # 0 THEN removeRow(rs, existingIndicator) ELSE rs)
     ELSE Append(rs, "typing")

setTyping(rs, visible) ==
  LET existingIndicator == querySelectorRow(rs, "htmx-r-chat-typing")
  IN IF ~visible
     THEN (IF existingIndicator # 0 THEN removeRow(rs, existingIndicator) ELSE rs)
     ELSE IF existingIndicator # 0 THEN rs
     ELSE Append(rs, "typing")

\* el.querySelectorAll('.htmx-r-chat-row').forEach(row => row.remove())
clearMessages(rs) == SelectSeq(rs, LAMBDA row : "htmx-r-chat-row" \notin RowClass(row))

TypingRows(rs) == {i \in 1 .. Len(rs) : "htmx-r-chat-typing" \in RowClass(rs[i])}

AppendMessage(role) ==
  /\ Len(rows) < MaxRows
  /\ rows' = appendMessage(rows, role)
  /\ chatLast' = "appendMessage"

SetTyping(visible) ==
  /\ Len(setTyping(rows, visible)) <= MaxRows
  /\ rows' = setTyping(rows, visible)
  /\ chatLast' = IF visible THEN "setTyping(true)" ELSE "setTyping(false)"

ClearMessages ==
  /\ rows' = clearMessages(rows)
  /\ chatLast' = "clearMessages"

AppendMessageStep ==
  (\E role \in Roles : AppendMessage(role)) /\ UNCHANGED <<obsVars, seen, twoVars, modalVars, toastVars>>
SetTypingStep ==
  (\E visible \in BOOLEAN : SetTyping(visible)) /\ UNCHANGED <<obsVars, seen, twoVars, modalVars, toastVars>>
ClearMessagesStep == ClearMessages /\ UNCHANGED <<obsVars, seen, twoVars, modalVars, toastVars>>

ChatNext ==
  \/ AppendMessageStep
  \/ SetTypingStep
  \/ ClearMessagesStep

\* A page with the chat container and no docs sections
WidgetInit == Init /\ sections = <<>> /\ activeLinks = {}

ChatSpec == WidgetInit /\ [][ChatNext]_vars

\* ------------------------------------------------------------ HtmxRModal actions
ModalOptions == [closeOnEscape : BOOLEAN, closeOnBackdrop : BOOLEAN]

Fresh == [modal EXCEPT !.closes = NoCloses]

Open(modalId, options) ==
  LET m == open(Fresh, modalId, options)
  IN /\ \A id \in ModalIds : m.backdropHandlers[id] <= MaxListeners
     /\ modal' = m
     /\ modalLast' = ModalRan("open", modalId)

Close(modalId) ==
  /\ modal' = close(Fresh, modalId)
  /\ modalLast' = ModalRan("close", modalId)

CloseAll ==
  /\ modal' = closeAll(Fresh)
  /\ modalLast' = ModalRan("closeAll", MissingModal)

\* The user presses Escape
EscapeKey ==
  /\ modal' = keydownEscape(Fresh, ModalIds)
  /\ modalLast' = ModalRan("keydown", MissingModal)

\* The user clicks the backdrop of a modal that is shown
BackdropClick(modalId) ==
  /\ modal.display[modalId] = "flex"
  /\ modal' = backdropClick(Fresh, modalId, modal.backdropHandlers[modalId])
  /\ modalLast' = ModalRan("click", modalId)

OpenStep ==
  /\ \E modalId \in ModalIds \cup {MissingModal}, options \in ModalOptions : Open(modalId, options)
  /\ UNCHANGED <<obsVars, seen, twoVars, chatVars, toastVars>>
CloseStep ==
  /\ \E modalId \in ModalIds \cup {MissingModal} : Close(modalId)
  /\ UNCHANGED <<obsVars, seen, twoVars, chatVars, toastVars>>
CloseAllStep == CloseAll /\ UNCHANGED <<obsVars, seen, twoVars, chatVars, toastVars>>
EscapeKeyStep == EscapeKey /\ UNCHANGED <<obsVars, seen, twoVars, chatVars, toastVars>>
BackdropClickStep ==
  /\ \E modalId \in ModalIds : BackdropClick(modalId)
  /\ UNCHANGED <<obsVars, seen, twoVars, chatVars, toastVars>>

ModalNext ==
  \/ OpenStep
  \/ CloseStep
  \/ CloseAllStep
  \/ EscapeKeyStep
  \/ BackdropClickStep

ModalSpec == WidgetInit /\ [][ModalNext]_vars

\* ------------------------------------------------------------ HtmxRToast actions
\* HtmxRToast.show(message, { duration, onDismiss })
Show(duration) ==
  /\ nextToast <= MaxToasts
  /\ container' = showToast(container, maxVisible, nextToast)
  /\ autoTimers' = autoDismiss(autoTimers, nextToast, duration)
  /\ stickyToasts' = IF duration = 0 THEN stickyToasts \cup {nextToast} ELSE stickyToasts
  /\ nextToast' = nextToast + 1
  /\ toastLast' = ToastRan("show", nextToast)
  /\ UNCHANGED <<maxVisible, removals, dismissed, clicked>>

\* HtmxRToast.configure({ maxVisible: n })
Configure(n) ==
  /\ maxVisible' = n
  /\ toastLast' = ToastRan("configure", NoToast)
  /\ UNCHANGED <<container, nextToast, stickyToasts, autoTimers, removals, dismissed, clicked>>

\* A click on the close button of toast t, which is in the container
CloseClick(t) ==
  /\ InContainer(container, t)
  /\ removals[t] < MaxPending
  /\ removals' = dismissToast(container, removals, t)
  /\ clicked' = clicked \cup {t}
  /\ toastLast' = ToastRan("click", t)
  /\ UNCHANGED <<container, maxVisible, nextToast, stickyToasts, autoTimers, dismissed>>

\* The auto-dismiss timer of toast t fires
AutoDismiss(t) ==
  /\ t \in autoTimers
  /\ autoTimers' = autoTimers \ {t}
  /\ removals' = dismissToast(container, removals, t)
  /\ toastLast' = ToastRan("auto", t)
  /\ UNCHANGED <<container, maxVisible, nextToast, stickyToasts, dismissed, clicked>>

\* A 200 ms removal timer of toast t fires: toast.remove(); onDismiss()
Removal(t) ==
  /\ removals[t] > 0
  /\ removals' = [removals EXCEPT ![t] = @ - 1]
  /\ container' = removeToast(container, t)
  /\ dismissed' = [dismissed EXCEPT ![t] = @ + 1]
  /\ toastLast' = ToastRan("removal", t)
  /\ UNCHANGED <<maxVisible, nextToast, stickyToasts, autoTimers, clicked>>

ShowStep ==
  (\E duration \in ToastDurations : Show(duration)) /\ UNCHANGED <<obsVars, seen, twoVars, chatVars, modalVars>>
ConfigureStep ==
  (\E n \in MaxVisibleChoices : Configure(n)) /\ UNCHANGED <<obsVars, seen, twoVars, chatVars, modalVars>>
CloseClickStep ==
  (\E t \in Toasts : CloseClick(t)) /\ UNCHANGED <<obsVars, seen, twoVars, chatVars, modalVars>>
AutoDismissStep ==
  (\E t \in Toasts : AutoDismiss(t)) /\ UNCHANGED <<obsVars, seen, twoVars, chatVars, modalVars>>
RemovalStep ==
  (\E t \in Toasts : Removal(t)) /\ UNCHANGED <<obsVars, seen, twoVars, chatVars, modalVars>>

ToastNext ==
  \/ ShowStep
  \/ ConfigureStep
  \/ CloseClickStep
  \/ AutoDismissStep
  \/ RemovalStep

ToastSpec == WidgetInit /\ [][ToastNext]_vars

\* ============================================================ claims

\* C1 (as claimed): on a page of sections with unique ids, when a click has
\* just navigated to a section, the next intersection batch (delivered before
\* any timer expiry or setScrolling call) is discarded: the active section
\* and the highlighted link stay the target's.
C1_StaleEventDiscarded ==
  [][(/\ UniqueIds(sections)
      /\ last.op = "click" /\ last.flag /\ activeId \in Range(sections)
      /\ last'.op = "intersect")
       => (activeId' = activeId /\ activeLinks' \subseteq {querySelector(activeId)})]_vars

\* C2 (as claimed): the active identifier changes only while isScrolling is
\* false, and only to the id of a tracked section.
C2_ChangesOnlyUnsuppressed ==
  [][activeId' # activeId => (~isScrolling /\ activeId' \in Range(sections))]_vars

\* C2 (amended): an intersection batch notifies or changes the active
\* identifier only while isScrolling is false, and only to the id of a tracked
\* section; a link click does so whatever isScrolling is, to the id of an
\* existing element; setScrolling and timer expiry never do.
C2_ActiveChangeRule ==
  [][(activeId' # activeId \/ calls' # <<>>)
       => \/ /\ last'.op = "intersect"
             /\ ~isScrolling
             /\ activeId' \in Range(sections)
          \/ /\ last'.op = "click"
             /\ getElementById(sections, activeId')]_vars

C2_ClickWhileSuppressed ==
  last.op = "click" /\ last.flag /\ isScrolling /\ activeId = "top"

\* C3: at most one suppression timer is live, it is the one scrollTimeout
\* names, and suppression is on while it is pending; so a timer that was
\* replaced or cancelled can never fire.
C3_OneLiveTimer ==
  /\ Cardinality(timers) <= 1
  /\ \A t \in timers : t.id = scrollTimeout /\ isScrolling

C3_Rearmed ==
  last.op = "arm" /\ last.flag /\ Cardinality(timers) = 1

\* C4: a click on a link whose target is the id of a tracked section makes
\* that id the active section in that handler run, with exactly one
\* notification, of that id, and the first link of that id as the only
\* highlighted link.
C4_NavigateActivates ==
  (last.op = "click" /\ last.id \in Range(sections))
    => /\ activeId = last.id
       /\ calls = <<last.id>>
       /\ activeLinks = {querySelector(last.id)}

C4_Navigated ==
  /\ last.op = "click" /\ last.id = "usage" /\ "usage" \in Range(sections)
  /\ isScrolling /\ activeLinks = {2}

\* C5 (as claimed): on a page of sections with unique ids, after a second
\* navigation to a section inside the window of a first one, the second
\* target is active, suppression is on and exactly one suppression timer is
\* pending.
C5_RapidNavigation ==
  (/\ UniqueIds(sections)
   /\ navPending = 2 /\ last.op = "click" /\ last.flag /\ activeId \in Range(sections))
    => /\ calls = <<activeId>>
       /\ isScrolling
       /\ Cardinality(timers) = 1

\* What of the suppression state decides later behaviour: the flag, the
\* pending timers' durations, how many there are, and whether scrollTimeout
\* names a pending one.
Pending(s) ==
  [isScrolling |-> s.isScrolling,
   durations |-> {t.duration : t \in s.timers},
   live |-> Cardinality(s.timers),
   held |-> \E t \in s.timers : t.id = s.scrollTimeout]

\* C6: from every reachable state, setScrolling(true, d1) followed at once by
\* setScrolling(true, d2) leaves what setScrolling(true, d2) alone leaves:
\* suppression on and one pending timer, of duration d2; the d1 timer is gone.
C6_SuppressTwice ==
  \A d1 \in Durations, d2 \in Durations :
    LET once == setScrolling(ScrollState, TRUE, d2)
        first == setScrolling(ScrollState, TRUE, d1)
        twice == setScrolling(first, TRUE, d2)
    IN /\ Pending(twice) = Pending(once)
       /\ Pending(twice) = [isScrolling |-> TRUE, durations |-> {d2}, live |-> 1, held |-> TRUE]
       /\ \A t \in twice.timers : t.id # first.scrollTimeout

C6_ArmedTwice ==
  last.op = "arm" /\ last.flag /\ isScrolling /\ nextTimerId > 2

\* C7 (as claimed): on a page of sections with unique ids and with no
\* navigation pending, an intersection batch never notifies an id that the
\* notification before it carried.
C7_NoConsecutiveDuplicate ==
  (UniqueIds(sections) /\ navPending = 0 /\ last.op = "intersect" /\ calls # <<>>)
    => ~repeated

C9_AtMostOneActiveLink ==
  activeId # NoId => activeLinks \subseteq {querySelector(activeId)}

C9_Highlighted ==
  last.op = "intersect" /\ activeId = "usage" /\ activeLinks = {2}

\* C10: while suppression is on its timer is pending, suppression always
\* ends, and an intersection batch that arrives while
\* suppression is off and has an intersecting entry notifies, making the
\* section of its last intersecting entry the active one.
C10_SuppressionEnds ==
  /\ [](isScrolling => \E t \in timers : t.id = scrollTimeout)
  /\ isScrolling ~> ~isScrolling
  /\ [][(last'.op = "intersect" /\ last'.flag /\ ~isScrolling)
          => /\ calls' # <<>>
             /\ activeId' = calls'[Len(calls')]
             /\ activeId' \in Range(sections)]_vars

C10_Expired ==
  last.op = "timer" /\ last.flag /\ ~isScrolling /\ timers = {}

\* C11: when the observer callback has just run on a batch while suppression
\* is off, the listener calls it made are exactly the batch's intersecting
\* entries, one call each, in batch order, with no call for an entry that is
\* not intersecting, and the section of the last intersecting entry is the
\* active one.
C11_BatchOrder ==
  (last.op = "intersect" /\ ~isScrolling) =>
    LET hits == SelectSeq(seen, LAMBDA e : e.isIntersecting)
    IN /\ Len(calls) = Len(hits)
       /\ \A i \in 1 .. Len(hits) : calls[i] = sections[hits[i].target]
       /\ hits # <<>> => activeId = sections[hits[Len(hits)].target]

C11_TwoInOneBatch ==
  /\ last.op = "intersect" /\ ~isScrolling
  /\ Len(seen) = 2 /\ seen[1].isIntersecting /\ seen[2].isIntersecting
  /\ sections[seen[1].target] # sections[seen[2].target]
  /\ calls = <<sections[seen[1].target], sections[seen[2].target]>>
  /\ activeId = sections[seen[2].target]

\* C12: when the observer callback has just notified a tracked section that
\* no sidebar link resolves to, nothing failed: that section is the active
\* one, and no link was given the active class for it (the missing link was
\* not touched).
C12_OrphanSection ==
  (/\ last.op = "intersect" /\ calls # <<>>
   /\ querySelector(calls[Len(calls)]) = NoLink)
    => /\ calls[Len(calls)] \in Range(sections)
       /\ activeId = calls[Len(calls)]
       /\ activeLinks = {}
       /\ last.error = "none"

C12_OrphanNotified ==
  /\ last.op = "intersect" /\ calls = <<"api">>
  /\ querySelector("api") = NoLink
  /\ activeId = "api" /\ activeLinks = {}

\* C13 (as claimed): an observer created on an empty section set, or on
\* sections two of which share an id, failed with InvalidArgument and
\* observes nothing, so that its callback never runs.
C13_InvalidSetRejected ==
  (sections = <<>> \/ ~UniqueIds(sections))
    => /\ createSectionObserver(sections).error = "InvalidArgument"
       /\ createSectionObserver(sections).observed = {}
       /\ last.op = "init" => last.error = "InvalidArgument"
       /\ last.op # "intersect"

\* C14: with two observer instances, a setScrolling call or timer expiry of
\* one instance leaves the other's suppression flag, timer handle and pending
\* timer unchanged, and a batch delivered to both is dropped or notified by
\* each according to its own flag alone: a suppressed instance drops it while
\* the unsuppressed one notifies every intersecting entry.
C14_InstancesIndependent ==
  [][/\ last'.op \in {"arm", "release", "timer"}
          => UNCHANGED <<isScrolling2, scrollTimeout2, timers2>>
     /\ last'.op \in {"arm2", "release2", "timer2"}
          => UNCHANGED <<isScrolling, scrollTimeout, timers>>
     /\ last'.op = "intersect"
          => /\ isScrolling => calls' = <<>>
             /\ isScrolling2 => calls2' = <<>>
             /\ (~isScrolling /\ last'.flag) => calls' # <<>>
             /\ (~isScrolling2 /\ last'.flag) => calls2' # <<>>
             /\ (~isScrolling /\ ~isScrolling2) => calls' = calls2']_vars

C14_DroppedByOneOnly ==
  /\ last.op = "intersect" /\ last.flag
  /\ isScrolling /\ ~isScrolling2
  /\ timers # {} /\ scrollTimeout2 # NoTimer
  /\ calls = <<>> /\ calls2 # <<>>

\* C18: the chat container holds at most one typing indicator; after
\* setTyping(true) it holds exactly one, after setTyping(false) none;
\* and setTyping(true) on a container that already shows the indicator
\* changes nothing.
C18_OneTypingIndicator ==
  /\ [](/\ Cardinality(TypingRows(rows)) <= 1
        /\ chatLast = "setTyping(true)" => Cardinality(TypingRows(rows)) = 1
        /\ chatLast = "setTyping(false)" => TypingRows(rows) = {})
  /\ [][(chatLast' = "setTyping(true)" /\ TypingRows(rows) # {}) => rows' = rows]_vars

C18_TypingShownTwice ==
  /\ chatLast = "setTyping(true)"
  /\ Len(rows) = 3 /\ rows[1] = "user" /\ rows[2] = "typing" /\ rows[3] = "assistant"

\* C17: when closeAll has just run, openModals is empty, every modal that
\* was open before it is hidden, and body scrolling is not locked: overflow
\* is 'auto' if any modal was open.
C17_CloseAllClosesAll ==
  [][modalLast'.op = "closeAll"
       => /\ modal'.openModals = {}
          /\ \A id \in modal.openModals : modal'.display[id] = "none"
          /\ modal'.overflow # "hidden"
          /\ modal.openModals # {} => modal'.overflow = "auto"]_vars

C17_BothClosed ==
  /\ modalLast.op = "closeAll"
  /\ modal.closes = [id \in ModalIds |-> 1]
  /\ modal.openModals = {} /\ modal.overflow = "auto"
  /\ \A id \in ModalIds : modal.display[id] = "none"

\* C19: body overflow is 'hidden' whenever some modal is in openModals; a
\* close call that leaves openModals empty sets it to 'auto', and a close
\* call that leaves another modal open does not change it.
C19_ScrollLock ==
  /\ [](modal.openModals # {} => modal.overflow = "hidden")
  /\ [][modalLast'.op = "close"
          => /\ modal'.openModals = {} /\ getModal(modalLast'.id) => modal'.overflow = "auto"
             /\ modal'.openModals # {} => modal'.overflow = modal.overflow]_vars

C19_OneOfTwoClosed ==
  /\ modalLast.op = "close" /\ getModal(modalLast.id)
  /\ modal.closes[modalLast.id] = 1
  /\ modal.display[modalLast.id] = "none"
  /\ modal.openModals # {} /\ modal.overflow = "hidden"

\* C20 (as claimed): every modal has at most one Escape-key listener and at
\* most one backdrop-click listener, and one Escape press or backdrop click
\* makes at most one close call for a modal.
C20_ListenersOnce ==
  \A id \in ModalIds :
    /\ modal.escapeHandlers[id] <= 1
    /\ modal.backdropHandlers[id] <= 1
    /\ modalLast.op \in {"keydown", "click"} => modal.closes[id] <= 1

\* C15 (as claimed): no toast has its onDismiss callback invoked twice, and
\* a toast whose close button was clicked and that is gone with no removal
\* timer left had it invoked once.
C15_DismissedOnce ==
  \A t \in Toasts :
    /\ dismissed[t] <= 1
    /\ (t \in clicked /\ ~InContainer(container, t) /\ removals[t] = 0)
         => dismissed[t] = 1

\* C16 (as claimed): a toast shown with duration 0 whose close button has
\* not been clicked is in the container.
C16_StickyStays ==
  \A t \in stickyToasts : t \notin clicked => InContainer(container, t)

\* C16 (amended): a toast shown with duration 0 never has an auto-dismiss
\* timer, and it leaves the container only by a removal timer after its
\* close button was clicked, or by a show call that finds maxVisible toasts
\* or more in the container with it as the oldest.
C16_StickyUntilClosedOrEvicted ==
  /\ [](stickyToasts \cap autoTimers = {})
  /\ [][\A t \in stickyToasts :
          (InContainer(container, t) /\ ~InContainer(container', t))
            => \/ toastLast' = ToastRan("removal", t) /\ t \in clicked
               \/ /\ toastLast'.op = "show"
                  /\ container[1] = t
                  /\ Len(container) >= maxVisible]_vars

C16_StickyEvicted ==
  /\ toastLast.op = "show"
  /\ 1 \in stickyToasts /\ 1 \notin clicked
  /\ ~InContainer(container, 1)

====
